---- MODULE Spec2Model ----
(***************************************************************************)
(* Model of delete-artifacts (src/src/main.rs): do_delete walks a          *)
(* directory tree with WalkDir, removes (or, in a dry run, reports) every  *)
(* directory whose file name is in DIRS_TO_DELETE, and finally writes the  *)
(* removed paths to deleted_dirs_log.txt.                                  *)
(*                                                                         *)
(* The file system is a tree of numbered entries (0 is "no entry", 1 is    *)
(* start_dir).  A path is the sequence of the names from start_dir down to *)
(* the entry, as WalkDir builds it.                                        *)
(***************************************************************************)
EXTENDS Integers, Sequences, FiniteSets, TLC

VARIABLES
    tree,          \* the entries at the start of the run: id -> [name, ftype, readable, parent]
    fs,            \* the ids of the entries currently on disk
    args,          \* Args: [commit, skip_log_file] (start_dir is entry 1 of tree)
    logFile,       \* deleted_dirs_log.txt: [exists, lines], a line being a path
    pc,            \* position in do_delete
    start,         \* walkdir IntoIter.start: the root has not been taken yet
    stack,         \* walkdir IntoIter.stack_list: one open directory listing per level
    entry,         \* the DirEntry the for loop is processing (0: none)
    res,           \* the result of the last fs::remove_dir_all: "none", "ok", "err"
    deleted_dirs,  \* the Vec<PathBuf> of line 35
    stdout,        \* the println! lines, each [text, path]
    stderr,        \* the eprintln! lines, each the path whose removal failed
    calls,         \* the file-system calls made so far, each [op, path, ok]
    yielded,       \* the paths of the entries the for loop has received so far
    logIdx,        \* index of the next element of deleted_dirs to write to the log
    result         \* the outcome of do_delete: "none" (running), "Ok", "Err", "Panic"

vars == <<tree, fs, args, logFile, pc, start, stack, entry, res, deleted_dirs,
          stdout, stderr, calls, yielded, logIdx, result>>

(***************************************************************************)
(* Bounds and inputs                                                       *)
(***************************************************************************)
MaxNodes == 3

DIRS_TO_DELETE == {"node_modules", "vendor", "target"}

\* A directory name that is not valid UTF-8 (OsStr::to_str gives None for it).
NonUtf8 == "\\xFF"

None == "None"

\* No log file in the working directory.
NoFile == [exists |-> FALSE, lines |-> <<>>]

\* Line 59: the log file, in the working directory (outside the walked tree).
LogPath == <<"deleted_dirs_log.txt">>

\* The content a log file left by an earlier run has.
StaleLog == [exists |-> TRUE, lines |-> << <<"old">> >>]

\* The names the entries of the input trees carry: two deny-list names, one
\* differing by case, one with extra characters, one that is not UTF-8.
InputNames == {"target", "vendor", "Target", "target2", NonUtf8}

\* The kinds of entry of the input trees: directories of every input name,
\* directories that cannot be read, and a plain file named like a deny-list entry.
EntryKinds ==
    [name : InputNames, ftype : {"dir"}, readable : {TRUE}]
    \cup [name : {"vendor", "Target"}, ftype : {"dir"}, readable : {FALSE}]
    \cup [name : {"target"}, ftype : {"file"}, readable : {TRUE}]

Entries == [name : InputNames, ftype : {"dir", "file"}, readable : BOOLEAN,
            parent : 0..(MaxNodes - 1)]

Kind(e) == [name |-> e.name, ftype |-> e.ftype, readable |-> e.readable]

\* A well-formed tree: entry 1 is the root, every other entry lies in a
\* directory numbered before it, the names within one directory are distinct.
WellFormed(t, n) ==
    /\ \A i \in 1..n : Kind(t[i]) \in EntryKinds
    /\ \A i \in 1..n : IF i = 1 THEN t[i].parent = 0
                       ELSE /\ t[i].parent \in 1..(i - 1)
                            /\ t[t[i].parent].ftype = "dir"
    /\ \A i, j \in 1..n : (i < j) => /\ t[i].parent <= t[j].parent
                                     /\ (t[i].parent = t[j].parent => t[i].name # t[j].name)

(***************************************************************************)
(* Paths                                                                   *)
(***************************************************************************)
RECURSIVE PathOf(_)
\* DirEntry::path(): the names from start_dir down to the entry.
PathOf(n) ==
    IF tree[n].parent = 0 THEN <<tree[n].name>>
    ELSE Append(PathOf(tree[n].parent), tree[n].name)

\* DirEntry::file_name(): the final component of the path.
file_name(p) == p[Len(p)]

\* OsStr::to_str(): None when the name is not valid UTF-8.
to_str(s) == IF s = NonUtf8 THEN None ELSE s

RECURSIVE Below(_, _)
\* n is a or lies beneath a.
Below(a, n) ==
    IF n = a THEN TRUE
    ELSE IF tree[n].parent = 0 THEN FALSE
    ELSE Below(a, tree[n].parent)

Subtree(a) == {n \in DOMAIN tree : Below(a, n)}

IsDir(n) == tree[n].ftype = "dir"

(***************************************************************************)
(* The code's decisions                                                    *)
(***************************************************************************)
\* Each definition of this section is preceded by the faulty variants of it
\* that the properties below are required to tell apart from it.
to_lower(s) == IF s = "Target" THEN "target" ELSE s

\* Faulty variant of Matches: compares without regard to case.
MatchesIgnoreCase(p) == to_lower(to_str(file_name(p))) \in DIRS_TO_DELETE

\* Faulty variant of Matches: looks at every component of the path.
MatchesAnyComponent(p) == \E i \in 1..Len(p) : to_str(p[i]) \in DIRS_TO_DELETE

\* Line 42: dirs_to_delete.contains(&entry.file_name().to_str().unwrap())
Matches(p) == to_str(file_name(p)) \in DIRS_TO_DELETE

\* Faulty variant of Commit: removes in a dry run too.
CommitAlways(a) == TRUE

\* Line 45: if args.commit
Commit(a) == a.commit

\* Line 58: if args.commit && !args.skip_log_file
WantsLog(a) == a.commit /\ ~a.skip_log_file

\* Lines 47-51: the path is pushed only when remove_dir_all returned Ok.
Recorded(dd, p, r) == IF r = "ok" THEN Append(dd, p) ELSE dd

\* Faulty variant of Create: opens the log for appending.
CreateAppending(f) == [exists |-> TRUE, lines |-> f.lines]

\* Line 59: File::create truncates an existing file.
Create(f) == [exists |-> TRUE, lines |-> <<>>]

\* Faulty variant of Notice: prints "Deleting" in a dry run too.
NoticeDeletingAlways(a, p) == [text |-> "Deleting", path |-> p]

\* Lines 46 and 53: the notice printed for a matched directory.
Notice(a, p) ==
    [text |-> IF Commit(a) THEN "Deleting" ELSE "Would delete", path |-> p]

\* Faulty variant of Listed: a listing taken before the removal.
ListedStale(d, onDisk) == {c \in DOMAIN tree : tree[c].parent = d}

\* The entries an open directory listing of d yields: the children of d
\* that are on disk when the listing is read.
Listed(d, onDisk) == {c \in onDisk : tree[c].parent = d}

\* The outcomes of fs::remove_dir_all on directory n: it succeeds and the
\* whole subtree is gone, or it fails after removing some of the entries
\* beneath n (each with everything beneath it) and n itself remains.
RemoveOutcomes(n) ==
    {[ok |-> TRUE, gone |-> Subtree(n) \cap fs]}
    \cup {[ok |-> FALSE, gone |-> S] :
            S \in {T \in SUBSET ((Subtree(n) \ {n}) \cap fs) :
                     \A x \in T : (Subtree(x) \cap fs) \subseteq T}}

\* Faulty variant of Opened: lists a directory that cannot be read.
OpenedReadable(d) == [dir |-> d, seen |-> {}, state |-> "open"]

\* walkdir IntoIter::push: open a listing of directory d; a directory that
\* cannot be read gives a listing holding only the error.
Opened(d) == [dir |-> d, seen |-> {}, state |-> IF tree[d].readable THEN "open" ELSE "err"]

(***************************************************************************)
(* Initial states                                                          *)
(***************************************************************************)
Init ==
    /\ \E n \in 0..MaxNodes : \E t \in [1..n -> Entries] :
          /\ WellFormed(t, n)
          /\ tree = t
          /\ fs = 1..n
    /\ args \in [commit : BOOLEAN, skip_log_file : BOOLEAN]
    /\ logFile \in {NoFile, StaleLog}
    /\ pc = "walk"
    /\ start = TRUE
    /\ stack = <<>>
    /\ entry = 0
    /\ res = "none"
    /\ deleted_dirs = <<>>
    /\ stdout = <<>>
    /\ stderr = <<>>
    /\ calls = <<>>
    /\ yielded = <<>>
    /\ logIdx = 1
    /\ result = "none"

(***************************************************************************)
(* The walk: WalkDir::new(&args.start_dir).into_iter()                     *)
(*             .filter_map(|e| e.ok()).filter(|e| e.file_type().is_dir())  *)
(***************************************************************************)
Top == stack[Len(stack)]

\* The first next(): the root entry.  A start_dir that does not exist gives
\* an error, which filter_map drops; a start_dir that is not a directory is
\* dropped by the filter; a directory is opened and yielded.
WalkStart ==
    /\ pc = "walk" /\ start
    /\ start' = FALSE
    /\ IF 1 \in fs /\ IsDir(1)
       THEN /\ stack' = <<Opened(1)>>
            /\ entry' = 1
            /\ yielded' = Append(yielded, PathOf(1))
            /\ pc' = "body"
       ELSE UNCHANGED <<stack, entry, yielded, pc>>
    /\ UNCHANGED <<tree, fs, args, logFile, res, deleted_dirs, stdout, stderr,
                   calls, logIdx, result>>

\* The listing on top of the stack is that of an unreadable directory: it
\* yields its error, which filter_map drops.
WalkErr ==
    /\ pc = "walk" /\ ~start /\ stack # <<>>
    /\ Top.state = "err"
    /\ stack' = [stack EXCEPT ![Len(stack)].state = "end"]
    /\ UNCHANGED <<tree, fs, args, logFile, pc, start, entry, res, deleted_dirs,
                   stdout, stderr, calls, yielded, logIdx, result>>

\* The listing on top of the stack yields its next entry c, in no particular
\* order.  A directory is opened (pushed) and passed to the loop body;
\* anything else is dropped by the filter.
WalkEntry ==
    /\ pc = "walk" /\ ~start /\ stack # <<>>
    /\ Top.state = "open"
    /\ \E c \in Listed(Top.dir, fs) \ Top.seen :
          LET marked == [stack EXCEPT ![Len(stack)].seen = @ \cup {c}]
          IN  IF IsDir(c)
              THEN /\ stack' = Append(marked, Opened(c))
                   /\ entry' = c
                   /\ yielded' = Append(yielded, PathOf(c))
                   /\ pc' = "body"
              ELSE /\ stack' = marked
                   /\ UNCHANGED <<entry, yielded, pc>>
    /\ UNCHANGED <<tree, fs, args, logFile, start, res, deleted_dirs, stdout,
                   stderr, calls, logIdx, result>>

\* The listing on top of the stack is exhausted: pop it.
WalkPop ==
    /\ pc = "walk" /\ ~start /\ stack # <<>>
    /\ \/ Top.state = "end"
       \/ Top.state = "open" /\ Listed(Top.dir, fs) \ Top.seen = {}
    /\ stack' = SubSeq(stack, 1, Len(stack) - 1)
    /\ UNCHANGED <<tree, fs, args, logFile, pc, start, entry, res, deleted_dirs,
                   stdout, stderr, calls, yielded, logIdx, result>>

\* The iterator is exhausted: the for loop ends.
WalkEnd ==
    /\ pc = "walk" /\ ~start /\ stack = <<>>
    /\ pc' = "log"
    /\ UNCHANGED <<tree, fs, args, logFile, start, stack, entry, res, deleted_dirs,
                   stdout, stderr, calls, yielded, logIdx, result>>

(***************************************************************************)
(* The loop body, lines 42-55                                              *)
(***************************************************************************)
\* Line 42: to_str() is None for a name that is not UTF-8 and unwrap() panics.
BodyPanic ==
    /\ pc = "body"
    /\ to_str(file_name(PathOf(entry))) = None
    /\ pc' = "done"
    /\ result' = "Panic"
    /\ UNCHANGED <<tree, fs, args, logFile, start, stack, entry, res, deleted_dirs,
                   stdout, stderr, calls, yielded, logIdx>>

\* Line 42: the name is not in the deny-list; on to the next entry.
BodySkip ==
    /\ pc = "body"
    /\ to_str(file_name(PathOf(entry))) # None
    /\ ~Matches(PathOf(entry))
    /\ pc' = "walk"
    /\ entry' = 0
    /\ UNCHANGED <<tree, fs, args, logFile, start, stack, res, deleted_dirs,
                   stdout, stderr, calls, yielded, logIdx, result>>

\* Lines 43-46 and 53: the name matches; print the notice.
BodyNotice ==
    /\ pc = "body"
    /\ to_str(file_name(PathOf(entry))) # None
    /\ Matches(PathOf(entry))
    /\ stdout' = Append(stdout, Notice(args, PathOf(entry)))
    /\ IF Commit(args)
       THEN /\ pc' = "remove"
            /\ UNCHANGED entry
       ELSE /\ pc' = "walk"
            /\ entry' = 0
    /\ UNCHANGED <<tree, fs, args, logFile, start, stack, res, deleted_dirs,
                   stderr, calls, yielded, logIdx, result>>

\* Line 47: fs::remove_dir_all(dir_path).
Remove ==
    /\ pc = "remove"
    /\ \E o \in RemoveOutcomes(entry) :
          /\ fs' = fs \ o.gone
          /\ res' = IF o.ok THEN "ok" ELSE "err"
          /\ calls' = Append(calls, [op |-> "remove_dir_all", path |-> PathOf(entry),
                                      ok |-> o.ok])
    /\ pc' = "record"
    /\ UNCHANGED <<tree, args, logFile, start, stack, entry, deleted_dirs, stdout,
                   stderr, yielded, logIdx, result>>

\* Lines 47-51: eprintln! on Err, deleted_dirs.push on Ok.
Record ==
    /\ pc = "record"
    /\ deleted_dirs' = Recorded(deleted_dirs, PathOf(entry), res)
    /\ stderr' = IF res = "err" THEN Append(stderr, PathOf(entry)) ELSE stderr
    /\ res' = "none"
    /\ entry' = 0
    /\ pc' = "walk"
    /\ UNCHANGED <<tree, fs, args, logFile, start, stack, stdout, calls, yielded, logIdx,
                   result>>

(***************************************************************************)
(* The log, lines 58-65                                                    *)
(***************************************************************************)
\* Line 58 is false: return Ok(()).
NoLog ==
    /\ pc = "log"
    /\ ~WantsLog(args)
    /\ pc' = "done"
    /\ result' = "Ok"
    /\ UNCHANGED <<tree, fs, args, logFile, start, stack, entry, res, deleted_dirs,
                   stdout, stderr, calls, yielded, logIdx>>

\* Line 59: File::create succeeds and the file is empty.
LogCreate ==
    /\ pc = "log"
    /\ WantsLog(args)
    /\ logFile' = Create(logFile)
    /\ calls' = Append(calls, [op |-> "create", path |-> LogPath, ok |-> TRUE])
    /\ pc' = "write"
    /\ UNCHANGED <<tree, fs, args, start, stack, entry, res, deleted_dirs, stdout,
                   stderr, yielded, logIdx, result>>

\* Line 59: File::create fails and ? returns the error.
LogCreateFail ==
    /\ pc = "log"
    /\ WantsLog(args)
    /\ calls' = Append(calls, [op |-> "create", path |-> LogPath, ok |-> FALSE])
    /\ pc' = "done"
    /\ result' = "Err"
    /\ UNCHANGED <<tree, fs, args, logFile, start, stack, entry, res, deleted_dirs,
                   stdout, stderr, yielded, logIdx>>

\* Line 61: writeln! of the next deleted directory succeeds.
LogWrite ==
    /\ pc = "write"
    /\ logIdx <= Len(deleted_dirs)
    /\ logFile' = [logFile EXCEPT !.lines = Append(@, deleted_dirs[logIdx])]
    /\ calls' = Append(calls, [op |-> "write", path |-> LogPath, ok |-> TRUE])
    /\ logIdx' = logIdx + 1
    /\ UNCHANGED <<tree, fs, args, pc, start, stack, entry, res, deleted_dirs,
                   stdout, stderr, yielded, result>>

\* Line 61: writeln! fails and ? returns the error.
LogWriteFail ==
    /\ pc = "write"
    /\ logIdx <= Len(deleted_dirs)
    /\ calls' = Append(calls, [op |-> "write", path |-> LogPath, ok |-> FALSE])
    /\ pc' = "done"
    /\ result' = "Err"
    /\ UNCHANGED <<tree, fs, args, logFile, start, stack, entry, res, deleted_dirs,
                   stdout, stderr, yielded, logIdx>>

\* Lines 60-65: every directory is written: return Ok(()).
LogDone ==
    /\ pc = "write"
    /\ logIdx > Len(deleted_dirs)
    /\ pc' = "done"
    /\ result' = "Ok"
    /\ UNCHANGED <<tree, fs, args, logFile, start, stack, entry, res, deleted_dirs,
                   stdout, stderr, calls, yielded, logIdx>>

Next ==
    \/ WalkStart
    \/ WalkErr
    \/ WalkEntry
    \/ WalkPop
    \/ WalkEnd
    \/ BodyPanic
    \/ BodySkip
    \/ BodyNotice
    \/ Remove
    \/ Record
    \/ NoLog
    \/ LogCreate
    \/ LogCreateFail
    \/ LogWrite
    \/ LogWriteFail
    \/ LogDone

Spec == Init /\ [][Next]_vars

(***************************************************************************)
(* Vocabulary of the properties                                            *)
(***************************************************************************)
Range(s) == {s[i] : i \in 1..Len(s)}

\* p is a proper prefix of q: the directory p is an ancestor of q.
IsAncestorPath(p, q) == Len(p) < Len(q) /\ SubSeq(q, 1, Len(p)) = p

Paths(s) == [i \in 1..Len(s) |-> s[i].path]

NoDuplicates(s) == \A i, j \in 1..Len(s) : (i # j) => s[i] # s[j]

IsPrefix(s, t) == Len(s) <= Len(t) /\ \A i \in 1..Len(s) : s[i] = t[i]

RemoveCalls == SelectSeq(calls, LAMBDA c : c.op = "remove_dir_all")

OkRemoveCalls == SelectSeq(calls, LAMBDA c : c.op = "remove_dir_all" /\ c.ok)

FailedRemoveCalls == SelectSeq(calls, LAMBDA c : c.op = "remove_dir_all" /\ ~c.ok)

AllRemovalsOk == FailedRemoveCalls = <<>>

\* The name is, as a string, one of the three deny-list names.
DenyName(s) == s \in {"node_modules", "vendor", "target"}

DenyDir(n) == IsDir(n) /\ DenyName(tree[n].name)

\* The walk can reach n: every directory above it can be read.
WalkReaches(n) ==
    /\ IsDir(n)
    /\ \A a \in DOMAIN tree : (a # n /\ Below(a, n)) => tree[a].readable

\* The deny-list-named directories the for loop has received.
YieldedDeny == {n \in DOMAIN tree : DenyDir(n) /\ PathOf(n) \in Range(yielded)}

LogTouched == \E c \in Range(calls) : c.op \in {"create", "write"}

LogFailed == calls # <<>> /\ calls[Len(calls)].op \in {"create", "write"}
             /\ ~calls[Len(calls)].ok

StartUsable == 1 \in DOMAIN tree /\ IsDir(1) /\ tree[1].readable

(***************************************************************************)
(* C1                                                                      *)
(***************************************************************************)
\* C1: in a dry run (commit = false) no removal is ever attempted and the
\* entries on disk are, in every state of the run, those of the start.
C1_DryRunLeavesDiskUnchanged ==
    ~args.commit => (fs = DOMAIN tree /\ RemoveCalls = <<>>)

\* A finished dry run over a tree holding a deny-list directory (announced)
\* and a directory that is not one.
C1_Witness ==
    /\ ~args.commit /\ pc = "done" /\ result = "Ok"
    /\ stdout # <<>>
    /\ \E n \in DOMAIN tree : IsDir(n) /\ ~DenyName(tree[n].name)

C3_RemovalOnlyOfExactBaseNameMatch ==
    /\ \A c \in Range(RemoveCalls) :
          \E n \in DOMAIN tree : PathOf(n) = c.path /\ IsDir(n) /\ DenyName(tree[n].name)
    /\ (pc = "remove") => (IsDir(entry) /\ DenyName(tree[entry].name))

\* A finished run that attempted a removal and visited, beneath a surviving
\* deny-list directory, a directory whose name differs only by case.
C3_Witness ==
    /\ pc = "done" /\ result = "Ok" /\ RemoveCalls # <<>>
    /\ \E n \in fs : /\ IsDir(n) /\ tree[n].name = "Target"
                     /\ PathOf(n) \in Range(yielded)
                     /\ \E i \in 1..(Len(PathOf(n)) - 1) : DenyName(PathOf(n)[i])

(***************************************************************************)
(* C4                                                                      *)
(***************************************************************************)
\* C4: when a committing run with logging returns Ok, the lines of the log
\* file are the paths whose remove_dir_all succeeded, in call order, each
\* once; no path whose removal failed is among them, none of them is on disk,
\* and nothing of an earlier log is left.
C4_LogHoldsExactlyTheRemovedPaths ==
    (pc = "done" /\ result = "Ok" /\ args.commit /\ ~args.skip_log_file)
        => /\ logFile.exists
           /\ logFile.lines = Paths(OkRemoveCalls)
           /\ NoDuplicates(logFile.lines)
           /\ \A c \in Range(FailedRemoveCalls) : c.path \notin Range(logFile.lines)
           /\ \A n \in DOMAIN tree : PathOf(n) \in Range(logFile.lines) => n \notin fs

\* A logged run with one removal that failed and one that succeeded.
C4_Witness ==
    /\ pc = "done" /\ result = "Ok" /\ args.commit /\ ~args.skip_log_file
    /\ FailedRemoveCalls # <<>>
    /\ Len(logFile.lines) >= 1

(***************************************************************************)
(* C5                                                                      *)
(***************************************************************************)
\* C5: a finished run has created the log file if and only if commit is
\* true and skip_log_file is false, and the log is touched only after the
\* walk has ended.
C5_LogCreatedIffCommitAndNotSkip ==
    /\ (pc = "done") => (LogTouched <=> (args.commit /\ ~args.skip_log_file))
    /\ LogTouched => (pc \in {"write", "done"} /\ stack = <<>> /\ ~start)
    /\ (logFile \notin {NoFile, StaleLog}) => LogTouched
    /\ (pc = "done" /\ result = "Ok" /\ args.commit /\ ~args.skip_log_file) => logFile.exists

(***************************************************************************)
(* C6                                                                      *)
(***************************************************************************)
\* C6: a committing run in which a removal failed, and whose log write did
\* not fail, returns Ok; the failed paths are not in the deletion record and
\* every deny-list directory the walk can still reach was attempted.
C6_FailedRemovalDoesNotStopTheRun ==
    (pc = "done" /\ args.commit /\ FailedRemoveCalls # <<>> /\ result # "Err")
        => /\ result = "Ok"
           /\ \A c \in Range(FailedRemoveCalls) : c.path \notin Range(deleted_dirs)
           /\ \A n \in fs : (DenyDir(n) /\ WalkReaches(n))
                               => PathOf(n) \in Range(Paths(RemoveCalls))

(***************************************************************************)
(* C7                                                                      *)
(***************************************************************************)
\* C7: a run ends with Ok or with Err, never part-way through the walk, and
\* with Err only when creating or writing the log file failed.
C7_FailsOnlyOnLogFailure ==
    (pc = "done")
        => /\ result \in {"Ok", "Err"}
           /\ (result = "Err") => LogFailed
           /\ stack = <<>> /\ ~start

C9_NothingBeneathARemovedDirectoryIsVisited ==
    /\ (entry # 0)
          => \A c \in Range(OkRemoveCalls) : ~IsAncestorPath(c.path, PathOf(entry))
    /\ \A i, j \in 1..Len(RemoveCalls) :
          (i < j /\ RemoveCalls[i].ok)
              => ~IsAncestorPath(RemoveCalls[i].path, RemoveCalls[j].path)
    /\ \A p, q \in Range(deleted_dirs) : ~IsAncestorPath(p, q)

\* A finished run that removed a directory holding a deny-list directory.
C9_Witness ==
    /\ pc = "done" /\ result = "Ok"
    /\ \E c \in Range(OkRemoveCalls) : \E n \in DOMAIN tree :
          DenyDir(n) /\ IsAncestorPath(c.path, PathOf(n))

(***************************************************************************)
(* C10                                                                     *)
(***************************************************************************)
\* The deny-list directories the loop has received and finished line 42 for.
NoticedSoFar ==
    LET d == SelectSeq(yielded, LAMBDA p : DenyName(p[Len(p)]))
    IN  IF pc = "body" /\ DenyName(tree[entry].name) THEN SubSeq(d, 1, Len(d) - 1) ELSE d

\* C10: the notices are, in order, one per deny-list directory the loop has
\* received, "Deleting" in a committing run and "Would delete" in a dry run;
\* every removal comes after its notice and every record after its removal
\* succeeded.
C10_OneNoticePerMatchBeforeRemoval ==
    /\ NoDuplicates(yielded)
    /\ Paths(stdout) = NoticedSoFar
    /\ \A i \in 1..Len(stdout) :
          stdout[i].text = (IF args.commit THEN "Deleting" ELSE "Would delete")
    /\ IsPrefix(Paths(RemoveCalls), Paths(stdout))
    /\ (pc # "remove" /\ args.commit) => Len(RemoveCalls) = Len(stdout)
    /\ IsPrefix(deleted_dirs, Paths(OkRemoveCalls))
    /\ (pc # "record") => deleted_dirs = Paths(OkRemoveCalls)

\* A finished committing run with two notices and a recorded removal.
C10_Witness ==
    /\ pc = "done" /\ args.commit
    /\ Len(stdout) >= 2
    /\ Len(deleted_dirs) >= 1

====
